---- MODULE Spec2Model ----
(***************************************************************************)
(* A model of kiritofeng/fft: the in-place radix-2 transform FFT of        *)
(* src/fft.h, stepped loop iteration by loop iteration, and                *)
(* matrix::inverse of src/matrix.h, stepped pivot by pivot.                *)
(*                                                                         *)
(* Arithmetic is exact.  A std::complex<long double> is a triple           *)
(* <<re, im, den>> standing for (re + i*im)/den in lowest terms; cos and   *)
(* sin are taken at whole quarter turns only, which is every angle the     *)
(* table build evaluates for the lengths 0..4 of Lengths (floating-point   *)
(* rounding is outside the model).                                         *)
(*                                                                         *)
(* Undefined behaviour is a choice over what a build does with it:         *)
(*  - roots[i] = ... at fft.h:29 stores at an index >= roots.size() (the   *)
(*    vector was only reserve()d): a build whose operator[] is unchecked   *)
(*    stores into the reserved storage and size() stays 0; a build whose   *)
(*    operator[] is checked aborts the process.  The variable checked      *)
(*    says which build runs.                                               *)
(*  - a read of storage nobody wrote yields any value of Garbage; a write  *)
(*    past the end of the sequence ends the behaviour in pc = "ub".        *)
(***************************************************************************)
EXTENDS Integers, Sequences, FiniteSets, TLC

VARIABLES
    pc,       \* FFT: position in the call
    P,        \* FFT: the caller's sequence, a function on 0..N-1
    inv,      \* FFT: the direction argument
    i, j, k,  \* FFT: the loop indices
    roots,    \* FFT: the static vector roots: [size, cap, buf]
    checked,  \* whether the build checks vector::operator[] against size()
    built,    \* ghost: this call ran the table build (fft.h:26-29)
    oob,      \* ghost: the index of the out-of-range sequence access, or -1
    P0,       \* ghost: the sequence as it was on entry to this call
    hist,     \* ghost: the previous call: [len, inv, input], the input kept
              \*        only while the same sequence is transformed again
    same,     \* the caller passes the sequence the previous call transformed
    ncalls,   \* ghost: calls started so far
    mpc,      \* inverse(): position
    A,        \* inverse(): the matrix *this, a function on (0..n-1) x (0..n-1)
    tmp, ret, \* inverse(): the two working matrices
    mi        \* inverse(): the outer loop index i

fftVars == <<pc, P, inv, i, j, k, roots, checked, built, oob, P0, hist, same, ncalls>>
matVars == <<mpc, A, tmp, ret, mi>>
vars == <<pc, P, inv, i, j, k, roots, checked, built, oob, P0, hist, same, ncalls,
          mpc, A, tmp, ret, mi>>

(***************************************************************************)
(* Bounds of the model.                                                    *)
(***************************************************************************)
MaxVal == 1
MaxCalls == 2
MaxEntry == 1
MaxDim == 2

\* The lengths a call is made with: up to 4 every twiddle factor is 1, -1, i or -i.
Lengths == {0, 1, 2, 3, 4}

(***************************************************************************)
(* Exact complex arithmetic.                                               *)
(***************************************************************************)
Abs(x) == IF x < 0 THEN -x ELSE x

RECURSIVE Gcd(_, _)
Gcd(a, b) == IF b = 0 THEN a ELSE Gcd(b, a % b)

Reduce(z) ==
    LET g == Gcd(Gcd(Abs(z[1]), Abs(z[2])), z[3])
    IN  <<z[1] \div g, z[2] \div g, z[3] \div g>>

Cx(re, im) == <<re, im, 1>>

CAdd(a, b) == Reduce(<<a[1] * b[3] + b[1] * a[3], a[2] * b[3] + b[2] * a[3], a[3] * b[3]>>)

CSub(a, b) == Reduce(<<a[1] * b[3] - b[1] * a[3], a[2] * b[3] - b[2] * a[3], a[3] * b[3]>>)

CMul(a, b) == Reduce(<<a[1] * b[1] - a[2] * b[2], a[1] * b[2] + a[2] * b[1], a[3] * b[3]>>)

CDivN(a, n) == Reduce(<<a[1], a[2], a[3] * n>>)

\* cos and sin of q quarter turns.
CosQ(q) == CASE q = 0 -> 1 [] q = 1 -> 0 [] q = 2 -> -1 [] q = 3 -> 0

SinQ(q) == CASE q = 0 -> 0 [] q = 1 -> 1 [] q = 2 -> 0 [] q = 3 -> -1

\* (cos(theta * idx), sin(theta * idx)) for theta = d * 2 * PI / n.
Twiddle(d, n, idx) ==
    LET q == ((4 * d * idx) \div n) % 4
    IN  Cx(CosQ(q), SinQ(q))

(***************************************************************************)
(* The sequence and the static table.                                      *)
(***************************************************************************)
Size(v) == Cardinality(DOMAIN v)

Empty == [x \in {} |-> Cx(0, 0)]

\* Storage nobody has written: no complex number has denominator 0.
Uninit == <<0, 0, 0>>

\* What a read of unwritten or foreign storage may yield.
Garbage == {Cx(0, 0), Cx(1, 0)}

\* The samples a caller passes: real part 0..MaxVal, imaginary part 0 or 1.
Samples == {Cx(re, im) : re \in 0..MaxVal, im \in 0..1}

Inputs == UNION {[0..(n - 1) -> Samples] : n \in Lengths}

NoCall == [len |-> -1, inv |-> 0, input |-> Empty]

\* static std::vector<...> roots; a default-constructed vector.
RootsInit == [size |-> 0, cap |-> 0, buf |-> Empty]

\* roots.clear(): the size becomes 0, the storage is kept.
Clear(r) == [r EXCEPT !.size = 0]

\* roots.reserve(n): a larger request reallocates and moves the size() elements.
Reserve(r, n) ==
    IF n <= r.cap THEN r
    ELSE [r EXCEPT !.cap = n,
                   !.buf = [x \in 0..(n - 1) |-> IF x < r.size THEN r.buf[x] ELSE Uninit]]

\* fft.h:25, the test that guards the table build.
NeedsRebuildStale(r, n) == r.cap < n \div 2

NeedsRebuild(r, n) == r.size # n \div 2

\* What reading roots[idx] may yield.
RootRead(r, idx) ==
    IF idx < r.cap /\ r.buf[idx] # Uninit THEN {r.buf[idx]} ELSE Garbage

\* The fold loop of fft.h:16-19 from (jj, b): the j it leaves, or -1 when it never exits.
RECURSIVE Fold(_, _)
Fold(jj, b) ==
    IF jj >= b
    THEN IF b = 0 THEN -1 ELSE Fold(jj - b, b \div 2)
    ELSE jj

Swap(v, x, y) == [v EXCEPT ![x] = v[y], ![y] = v[x]]

\* fft.h:38 and fft.h:39, the two outputs of a butterfly.
ButterflyLo(u, v) == CAdd(u, v)

ButterflyHiSum(u, v) == CAdd(u, v)

ButterflyHi(u, v) == CSub(u, v)

\* fft.h:12-14: where a call goes on entry; the length is not looked at.
EntryValidated(n) ==
    IF n \in {1, 2, 4} THEN "perm" ELSE "invalid"

Entry(n) == "perm"

(***************************************************************************)
(* FFT, src/fft.h:12-49.                                                   *)
(***************************************************************************)
FFTInit ==
    /\ pc = "idle"
    /\ P = Empty
    /\ inv = 1
    /\ i = 0 /\ j = 0 /\ k = 0
    /\ roots = RootsInit
    /\ checked \in BOOLEAN
    /\ built = FALSE
    /\ oob = -1
    /\ P0 = Empty
    /\ hist = NoCall
    /\ same = FALSE
    /\ ncalls = 0

MatOff ==
    /\ mpc = "off"
    /\ A = <<>> /\ tmp = <<>> /\ ret = <<>>
    /\ mi = 0

Enter(seq, d) ==
    /\ P' = seq
    /\ P0' = seq
    /\ inv' = d
    /\ i' = 1 /\ j' = 0 /\ k' = 0
    /\ built' = FALSE
    /\ pc' = Entry(Size(seq))
    /\ ncalls' = ncalls + 1
    /\ UNCHANGED <<roots, checked, oob, hist, same>>

\* A call FFT(seq, d) on a sequence of the caller's.
Call ==
    /\ pc = "idle" /\ ~same /\ ncalls < MaxCalls
    /\ \E seq \in Inputs, d \in {1, -1} : Enter(seq, d)
    /\ UNCHANGED matVars

\* A call FFT(P, d) on the sequence the previous call transformed.
CallAgain ==
    /\ pc = "idle" /\ same /\ ncalls < MaxCalls
    /\ \E d \in {1, -1} : Enter(P, d)
    /\ UNCHANGED matVars

\* fft.h:14-21, one iteration of the first loop.
PermStep ==
    /\ pc = "perm" /\ i < Size(P)
    /\ LET b == Size(P) \div 2
           f == Fold(j, b)
       IN  IF f = -1
           THEN UNCHANGED <<i, j, P>>
           ELSE /\ j' = f
                /\ P' = IF i < f THEN Swap(P, i, f) ELSE P
                /\ i' = i + 1
    /\ UNCHANGED <<pc, inv, k, roots, checked, built, oob, P0, hist, same, ncalls>>
    /\ UNCHANGED matVars

\* fft.h:14 exit, fft.h:23, fft.h:25-27: the rebuild test, clear() and reserve().
PermExit ==
    /\ pc = "perm" /\ i >= Size(P)
    /\ IF NeedsRebuild(roots, Size(P))
       THEN /\ roots' = Reserve(Clear(roots), Size(P))
            /\ built' = TRUE
            /\ pc' = "build"
       ELSE /\ pc' = "stage"
            /\ UNCHANGED <<roots, built>>
    /\ i' = IF NeedsRebuild(roots, Size(P)) THEN 0 ELSE 2
    /\ j' = 0 /\ k' = 0
    /\ UNCHANGED <<P, inv, checked, oob, P0, hist, same, ncalls>>
    /\ UNCHANGED matVars

\* fft.h:28-29, one store roots[i] = (cos(theta * i), sin(theta * i)).
BuildStore ==
    /\ pc = "build" /\ i < Size(P) \div 2
    /\ IF checked
       THEN /\ pc' = "aborted"
            /\ UNCHANGED <<roots, i>>
       ELSE /\ roots' = [roots EXCEPT !.buf[i] = Twiddle(inv, Size(P), i)]
            /\ i' = i + 1
            /\ pc' = pc
    /\ UNCHANGED <<P, inv, j, k, checked, built, oob, P0, hist, same, ncalls>>
    /\ UNCHANGED matVars

\* fft.h:28 exit.
BuildExit ==
    /\ pc = "build" /\ i >= Size(P) \div 2
    /\ pc' = "stage"
    /\ i' = 2 /\ j' = 0 /\ k' = 0
    /\ UNCHANGED <<P, inv, roots, checked, built, oob, P0, hist, same, ncalls>>
    /\ UNCHANGED matVars

\* fft.h:33, int layer = P.size() / i.
Layer == Size(P) \div i

\* fft.h:36-39, one butterfly.
Butterfly ==
    /\ pc = "stage" /\ i <= Size(P) /\ j < Size(P) /\ k < i \div 2
    /\ LET lo == j + k
           hi == j + k + i \div 2
       IN  IF hi < Size(P)
           THEN \E r \in RootRead(roots, Layer * k) :
                    LET u == P[lo]
                        v == CMul(P[hi], r)
                    IN  /\ P' = [P EXCEPT ![lo] = ButterflyLo(u, v),
                                          ![hi] = ButterflyHi(u, v)]
                        /\ k' = k + 1
                        /\ UNCHANGED <<pc, oob>>
           ELSE \E g \in Garbage, r \in RootRead(roots, Layer * k) :
                    LET u == P[lo]
                        v == CMul(g, r)
                    IN  /\ P' = [P EXCEPT ![lo] = ButterflyLo(u, v)]
                        /\ oob' = hi
                        /\ pc' = "ub"
                        /\ UNCHANGED k
    /\ UNCHANGED <<inv, i, j, roots, checked, built, P0, hist, same, ncalls>>
    /\ UNCHANGED matVars

\* fft.h:35 exit and fft.h:34, j += i.
NextBlock ==
    /\ pc = "stage" /\ i <= Size(P) /\ j < Size(P) /\ k >= i \div 2
    /\ j' = j + i
    /\ k' = 0
    /\ UNCHANGED <<pc, P, inv, i, roots, checked, built, oob, P0, hist, same, ncalls>>
    /\ UNCHANGED matVars

\* fft.h:34 exit and fft.h:32, i <<= 1.
NextStage ==
    /\ pc = "stage" /\ i <= Size(P) /\ j >= Size(P)
    /\ i' = 2 * i
    /\ j' = 0 /\ k' = 0
    /\ UNCHANGED <<pc, P, inv, roots, checked, built, oob, P0, hist, same, ncalls>>
    /\ UNCHANGED matVars

\* fft.h:32 exit and fft.h:44.
StageExit ==
    /\ pc = "stage" /\ i > Size(P)
    /\ pc' = IF inv = -1 THEN "norm" ELSE "done"
    /\ k' = 0
    /\ UNCHANGED <<P, inv, i, j, roots, checked, built, oob, P0, hist, same, ncalls>>
    /\ UNCHANGED matVars

\* fft.h:45-46, a /= P.size() for one element.
NormStep ==
    /\ pc = "norm" /\ k < Size(P)
    /\ P' = [P EXCEPT ![k] = CDivN(P[k], Size(P))]
    /\ k' = k + 1
    /\ UNCHANGED <<pc, inv, i, j, roots, checked, built, oob, P0, hist, same, ncalls>>
    /\ UNCHANGED matVars

\* fft.h:45 exit.
NormExit ==
    /\ pc = "norm" /\ k >= Size(P)
    /\ pc' = "done"
    /\ UNCHANGED <<P, inv, i, j, k, roots, checked, built, oob, P0, hist, same, ncalls>>
    /\ UNCHANGED matVars

\* fft.h:49, the call returns; its locals end, and the caller either keeps the
\* sequence to transform it again (keep) or will pass another one.
Leave(keep) ==
    /\ pc = "done"
    /\ pc' = "idle"
    /\ hist' = [len |-> Size(P0), inv |-> inv, input |-> IF keep THEN P0 ELSE Empty]
    /\ same' = keep
    /\ P' = IF keep THEN P ELSE Empty
    /\ P0' = Empty
    /\ i' = 0 /\ j' = 0 /\ k' = 0
    /\ built' = FALSE
    /\ UNCHANGED <<inv, roots, checked, oob, ncalls>>

ReturnKeep ==
    /\ Leave(TRUE)
    /\ UNCHANGED matVars

ReturnDrop ==
    /\ Leave(FALSE)
    /\ UNCHANGED matVars

Init == FFTInit /\ MatOff

Next ==
    \/ Call
    \/ CallAgain
    \/ PermStep
    \/ PermExit
    \/ BuildStore
    \/ BuildExit
    \/ Butterfly
    \/ NextBlock
    \/ NextStage
    \/ StageExit
    \/ NormStep
    \/ NormExit
    \/ ReturnKeep
    \/ ReturnDrop

Spec == Init /\ [][Next]_vars

\* The steps of a running call: the calling thread runs on until the call ends.
Step ==
    \/ PermStep \/ PermExit \/ BuildStore \/ BuildExit \/ Butterfly
    \/ NextBlock \/ NextStage \/ StageExit \/ NormStep \/ NormExit

(***************************************************************************)
(* matrix<T>::inverse<T1>, src/matrix.h:232-262, with T = int and          *)
(* T1 = long double.  A matrix is its data: a function from the row index  *)
(* to a function from the column index.  A long double is a pair <<n, d>>: *)
(* the fraction n/d in lowest terms when d > 0, and <<1, 0>>, <<-1, 0>>,   *)
(* <<0, 0>> for +infinity, -infinity and NaN, by the rules of IEEE 754     *)
(* (the sign of a zero is not kept: a zero divisor counts as +0).          *)
(* The constructors inverse() uses are taken by what their comments say    *)
(* they build: the copy constructor an equal matrix, identity(N) the       *)
(* N x N identity, rows() the number of rows.                              *)
(***************************************************************************)
Sgn(x) == IF x < 0 THEN -1 ELSE IF x > 0 THEN 1 ELSE 0

Fl(n) == <<n, 1>>

NaN == <<0, 0>>

Inf(s) == <<s, 0>>

Frac(n, d) == LET g == Gcd(Abs(n), d) IN <<n \div g, d \div g>>

IsNaN(a) == a = NaN

IsInf(a) == a[2] = 0 /\ a[1] # 0

IsZero(a) == a[2] # 0 /\ a[1] = 0

FDiv(a, b) ==
    IF IsNaN(a) \/ IsNaN(b) THEN NaN
    ELSE IF IsInf(a) THEN (IF IsInf(b) THEN NaN
                           ELSE Inf(a[1] * (IF b[1] < 0 THEN -1 ELSE 1)))
    ELSE IF IsInf(b) THEN Fl(0)
    ELSE IF b[1] = 0 THEN (IF a[1] = 0 THEN NaN ELSE Inf(Sgn(a[1])))
    ELSE Frac(a[1] * b[2] * Sgn(b[1]), a[2] * Abs(b[1]))

FMul(a, b) ==
    IF IsNaN(a) \/ IsNaN(b) THEN NaN
    ELSE IF IsInf(a) \/ IsInf(b)
         THEN (IF IsZero(a) \/ IsZero(b) THEN NaN ELSE Inf(Sgn(a[1]) * Sgn(b[1])))
    ELSE Frac(a[1] * b[1], a[2] * b[2])

FSub(a, b) ==
    IF IsNaN(a) \/ IsNaN(b) THEN NaN
    ELSE IF IsInf(a) THEN (IF IsInf(b) /\ a[1] = b[1] THEN NaN ELSE a)
    ELSE IF IsInf(b) THEN Inf(-b[1])
    ELSE Frac(a[1] * b[2] - b[1] * a[2], a[2] * b[2])

\* matrix.h:112-117 and matrix.h:126-131.
Rows(m) == Size(m)

Columns(m) == IF Rows(m) = 0 THEN 0 ELSE Size(m[0])

\* matrix.h:97-104, the N x N identity matrix.
Identity(n) == [r \in 0..(n - 1) |-> [c \in 0..(n - 1) |-> IF r = c THEN Fl(1) ELSE Fl(0)]]

\* matrix.h:236 (the copy constructor, matrix.h:82-89), every entry converted to T1.
Copy(m) == [r \in DOMAIN m |-> [c \in DOMAIN m[r] |-> Fl(m[r][c])]]

\* matrix.h:242, for(j = i; j < rows() && tmp(j,i) != T1(0); ++ j); the j it ends with.
RECURSIVE Pivot(_, _, _)
Pivot(m, col, jj) ==
    IF jj < Rows(m) /\ ~IsZero(m[jj][col]) THEN Pivot(m, col, jj + 1) ELSE jj

\* matrix.h:246-251, rows ii and jj exchanged in the columns from ii on.
SwapRows(m, ii, jj) ==
    [r \in DOMAIN m |-> [c \in DOMAIN m[r] |->
        IF c >= ii /\ r = ii THEN m[jj][c]
        ELSE IF c >= ii /\ r = jj THEN m[ii][c]
        ELSE m[r][c]]]

\* matrix.h:252-258, row ii taken out of every row below it, in the columns from ii on.
Eliminate(m, ii) ==
    [r \in DOMAIN m |-> [c \in DOMAIN m[r] |->
        IF r > ii /\ c >= ii
        THEN FSub(m[r][c], FMul(FDiv(m[ii][c], m[ii][ii]), m[r][ii]))
        ELSE m[r][c]]]

Matrices ==
    UNION {[0..(n - 1) -> [0..(n - 1) -> (-MaxEntry)..MaxEntry]] : n \in 1..MaxDim}

FFTOff ==
    /\ pc = "off"
    /\ P = Empty /\ P0 = Empty
    /\ inv = 1
    /\ i = 0 /\ j = 0 /\ k = 0
    /\ roots = RootsInit
    /\ checked = FALSE
    /\ built = FALSE
    /\ oob = -1
    /\ hist = NoCall
    /\ same = FALSE
    /\ ncalls = 0

\* A matrix on which inverse() is about to be called.
InvInit ==
    /\ mpc = "start"
    /\ A \in Matrices
    /\ tmp = <<>> /\ ret = <<>>
    /\ mi = 0
    /\ FFTOff

\* matrix.h:236-237 and the start of the loop at matrix.h:241.
InvBegin ==
    /\ mpc = "start"
    /\ tmp' = Copy(A)
    /\ ret' = Identity(Rows(A))
    /\ mi' = 0
    /\ mpc' = "loop"
    /\ UNCHANGED <<A>>
    /\ UNCHANGED fftVars

\* matrix.h:242-245, the search ends at rows(): throw degenerate_matrix_error().
InvThrow ==
    /\ mpc = "loop" /\ mi < Rows(A)
    /\ Pivot(tmp, mi, mi) = Rows(A)
    /\ mpc' = "thrown"
    /\ UNCHANGED <<A, tmp, ret, mi>>
    /\ UNCHANGED fftVars

\* matrix.h:242-258, one pass of the loop that does not throw.
InvPass ==
    /\ mpc = "loop" /\ mi < Rows(A)
    /\ LET jj == Pivot(tmp, mi, mi)
           t  == IF mi # jj THEN SwapRows(tmp, mi, jj) ELSE tmp
           rt == IF mi # jj THEN SwapRows(ret, mi, jj) ELSE ret
       IN  /\ jj # Rows(A)
           /\ tmp' = Eliminate(t, mi)
           /\ ret' = Eliminate(rt, mi)
    /\ mi' = mi + 1
    /\ UNCHANGED <<A, mpc>>
    /\ UNCHANGED fftVars

\* matrix.h:241 exit and matrix.h:261, return ret.
InvReturn ==
    /\ mpc = "loop" /\ mi >= Rows(A)
    /\ mpc' = "returned"
    /\ UNCHANGED <<A, tmp, ret, mi>>
    /\ UNCHANGED fftVars

InvNext ==
    \/ InvBegin
    \/ InvThrow
    \/ InvPass
    \/ InvReturn

SpecInv == InvInit /\ [][InvNext]_vars

(***************************************************************************)
(* What the claims speak of.                                               *)
(***************************************************************************)
IsPow2(n) == n \in {1, 2, 4, 8, 16}

\* The call has come to an end, one way or another.
Ended == pc \in {"done", "aborted", "ub", "invalid"}

\* The sum over n in 0..m of x[n] * exp(i * 2 * pi * n * kk / N).
RECURSIVE DftSum(_, _, _)
DftSum(x, kk, m) ==
    IF m < 0 THEN Cx(0, 0)
    ELSE CAdd(DftSum(x, kk, m - 1), CMul(x[m], Twiddle(1, Size(x), m * kk)))

\* The unnormalized discrete Fourier transform of x.
DFT(x) == [kk \in DOMAIN x |-> DftSum(x, kk, Size(x) - 1)]

\* x with its bits reversed in a field of log2(n) bits.
RECURSIVE Rev(_, _)
Rev(x, n) == IF n <= 1 THEN 0 ELSE (x % 2) * (n \div 2) + Rev(x \div 2, n \div 2)

\* The stateless reference of C4: the steps of FFT run in one go on x, with a
\* table built for this length and direction alone.
FreshTable(d, n) == [x \in 0..(n \div 2 - 1) |-> Twiddle(d, n, x)]

RECURSIVE RefPerm(_, _, _)
RefPerm(x, ii, jj) ==
    IF ii >= Size(x) THEN x
    ELSE LET f == Fold(jj, Size(x) \div 2)
         IN  RefPerm(IF ii < f THEN Swap(x, ii, f) ELSE x, ii + 1, f)

RefButterfly(x, t, len, jj, kk) ==
    LET u == x[jj + kk]
        v == CMul(x[jj + kk + len \div 2], t[(Size(x) \div len) * kk])
    IN  [x EXCEPT ![jj + kk] = ButterflyLo(u, v),
                  ![jj + kk + len \div 2] = ButterflyHi(u, v)]

RECURSIVE RefStages(_, _, _, _, _)
RefStages(x, t, len, jj, kk) ==
    IF len > Size(x) THEN x
    ELSE IF jj >= Size(x) THEN RefStages(x, t, 2 * len, 0, 0)
    ELSE IF kk >= len \div 2 THEN RefStages(x, t, len, jj + len, 0)
    ELSE RefStages(RefButterfly(x, t, len, jj, kk), t, len, jj, kk + 1)

RefFFT(x, d) ==
    LET y == RefStages(RefPerm(x, 1, 0), FreshTable(d, Size(x)), 2, 0, 0)
    IN  IF d = -1 THEN [n \in DOMAIN y |-> CDivN(y[n], Size(x))] ELSE y

(***************************************************************************)
(* The claims.                                                             *)
(***************************************************************************)

\* C1: when a forward call on a power-of-two length returns, the sequence holds
\* the unnormalized DFT of what it held on entry.
C1_ForwardIsDFT ==
    (pc = "done" /\ inv = 1 /\ IsPow2(Size(P0))) => P = DFT(P0)

\* C2: a forward call followed by an inverse call on the same power-of-two
\* sequence leaves the sequence as it was before the forward call.
C2_RoundTrip ==
    (pc = "done" /\ inv = -1 /\ same /\ hist.inv = 1 /\ IsPow2(Size(P0)))
        => P = hist.input

\* C3 as claimed: a call on a length that is no power of two ends in
\* InvalidLength with the sequence untouched.
C3_InvalidLength ==
    (Ended /\ ~IsPow2(Size(P0))) => (pc = "invalid" /\ P = P0)

\* C3 as amended: no call ends in InvalidLength; a call on length 0 returns
\* with the sequence unchanged; a call on length 3 is aborted at the table
\* store with the sequence unchanged where operator[] is checked, and otherwise
\* it overwrites P[0] and P[1] with their sum and difference and then reads
\* and writes index 3, one past the end.
C3_NotValidated ==
    /\ pc # "invalid"
    /\ (Ended /\ Size(P0) = 0) => (pc = "done" /\ P = P0)
    /\ (Ended /\ Size(P0) = 3) =>
           IF checked
           THEN pc = "aborted" /\ P = P0
           ELSE /\ pc = "ub" /\ oob = 3
                /\ P[0] = CAdd(P0[0], P0[1])
                /\ P[1] = CSub(P0[0], P0[1])

C3_Witness ==
    pc = "ub" /\ Size(P0) = 3 /\ oob = 3 /\ P[0] # P0[0]

\* C4: when a forward call returns whose power-of-two length differs from that
\* of the forward call before it, the sequence equals what the stateless
\* reference makes of the call's input with a table of its own.
C4_FreshTable ==
    (/\ pc = "done" /\ inv = 1 /\ hist.inv = 1
     /\ IsPow2(hist.len) /\ IsPow2(Size(P0)) /\ hist.len # Size(P0))
        => P = RefFFT(P0, 1)

C4_Witness ==
    /\ pc = "done" /\ inv = 1 /\ hist.inv = 1
    /\ hist.len = 2 /\ Size(P0) = 4
    /\ P0[3] = Cx(1, 1)
    /\ P = RefFFT(P0, 1)

\* C5: an inverse call right after a forward call of the same length N >= 2
\* skips the table build, and its butterflies use the forward table.
C5_StaleReuse ==
    (/\ pc = "stage" /\ inv = -1 /\ hist.inv = 1
     /\ hist.len = Size(P) /\ Size(P) >= 2 /\ IsPow2(Size(P)))
        => /\ ~built
           /\ \A x \in 0..(Size(P) \div 2 - 1) : roots.buf[x] = Twiddle(1, Size(P), x)

\* C6: a forward call on [c, c, c, c] returns [4c, 0, 0, 0], and on
\* [1, 0, 0, 0] it returns [1, 1, 1, 1].
C6_KnownPairs ==
    (pc = "done" /\ inv = 1 /\ Size(P0) = 4) =>
        /\ (\A x \in 1..3 : P0[x] = P0[0]) =>
               P = [x \in 0..3 |-> IF x = 0 THEN CMul(Cx(4, 0), P0[0]) ELSE Cx(0, 0)]
        /\ (P0 = [x \in 0..3 |-> IF x = 0 THEN Cx(1, 0) ELSE Cx(0, 0)]) =>
               P = [x \in 0..3 |-> Cx(1, 0)]

C6_Witness ==
    /\ pc = "done" /\ inv = 1
    /\ P0 = [x \in 0..3 |-> Cx(1, 1)]
    /\ P = [x \in 0..3 |-> IF x = 0 THEN Cx(4, 4) ELSE Cx(0, 0)]

\* C8: when the first loop of a call on a power-of-two length finishes, the
\* element that was at index x on entry is at index rev(x).
C8_BitReversed ==
    (pc = "perm" /\ i >= Size(P) /\ IsPow2(Size(P)))
        => \A x \in DOMAIN P : P[Rev(x, Size(P))] = P0[x]

\* C9: in the butterfly stages of a call on a power-of-two length N >= 2 the
\* table's size is N/2, and every table index and sequence index about to be
\* used is inside the table's size and the sequence's length.
C9_InsideTable ==
    (pc = "stage" /\ Size(P) >= 2 /\ IsPow2(Size(P))) =>
        /\ roots.size = Size(P) \div 2
        /\ (i <= Size(P) /\ j < Size(P) /\ k < i \div 2) =>
               /\ Layer * k < roots.size
               /\ j + k + i \div 2 < Size(P)

\* C10: a call on a power-of-two length runs to its return: it never ends in
\* any other way.
C10_RunsToReturn ==
    (Ended /\ IsPow2(Size(P0))) => pc = "done"

\* Beside C10: what is left of a running call, a number every step of the
\* call lowers.  Where operator[] is unchecked a call on a power-of-two
\* length therefore runs on to its return: the fold loop exits at every
\* iteration, and so do the stage loops and the normalization pass.
Rank ==
    CASE pc = "perm"  -> 3000 + (Size(P) - i)
      [] pc = "build" -> 2000 + (Size(P) \div 2 - i)
      [] pc = "stage" -> 1000 + 50 * (IF i <= 2 * Size(P) THEN 2 * Size(P) + 1 - i ELSE 0)
                              + 2 * (IF j < Size(P) THEN Size(P) + 1 - j ELSE 0)
                              + (IF k < i \div 2 THEN i \div 2 - k ELSE 0)
      [] pc = "norm"  -> 500 + (Size(P) - k)
      [] OTHER        -> 0

FoldExits ==
    (pc = "perm" /\ i < Size(P)) => Fold(j, Size(P) \div 2) # -1

LoopsProgress ==
    [][(Step => Rank' < Rank) /\ FoldExits]_vars

\* The determinant of a square integer matrix, by expansion along the first row.
Minor(m, c) ==
    [r \in 0..(Rows(m) - 2) |-> [cc \in 0..(Rows(m) - 2) |->
        m[r + 1][IF cc < c THEN cc ELSE cc + 1]]]

RECURSIVE Det(_)
RECURSIVE DetSum(_, _)
DetSum(m, c) ==
    IF c < 0 THEN 0
    ELSE DetSum(m, c - 1) + (IF c % 2 = 0 THEN 1 ELSE -1) * m[0][c] * Det(Minor(m, c))

Det(m) ==
    IF Rows(m) = 0 THEN 1
    ELSE IF Rows(m) = 1 THEN m[0][0]
    ELSE DetSum(m, Rows(m) - 1)

====
